---- MODULE Spec2Model ----
(***************************************************************************)
(* Model of the tool pipeline of llama-tools-and-thinking-mode:            *)
(*   src/tools.py             ToolResult, Tools.read_file, Tools.list_dir,   *)
(*                            Tools.execute_tool                             *)
(*   src/llm_thinking_mode.py parse_tool_calls, execute_tools,               *)
(*                            parse_thinking_response, get_context_usage,    *)
(*                            run_thinking_chat                              *)
(*                                                                         *)
(* Text is modelled as sequences: "" is the empty sequence <<>>, an          *)
(* f-string is the sequence of its literal pieces and interpolated values.   *)
(* A path is the sequence of its components; an absolute path starts "/".    *)
(***************************************************************************)
EXTENDS Integers, Sequences, FiniteSets, TLC

VARIABLES
    fs,          \* the file system: resolved path -> node
    call,        \* the last operation invoked on Tools and its arguments
    result,      \* what that operation gave back: a ToolResult, or a raised fault
    invoked,     \* the tool function execute_tool delegated to, if any
    response,    \* the model response handed to the parsers
    tool_calls,  \* the list parse_tool_calls returned
    parse_pc,    \* "idle" before parse_tool_calls ran, "parsed" or "raised" after
    tool_results,     \* execute_tools: the list `results`
    exec_pc,          \* execute_tools: "idle", "running", "returned" or "raised"
    thinking_process, \* parse_thinking_response: the first part of the pair returned
    final_answer,     \* parse_thinking_response: the second part of the pair returned
    split_pc,         \* "idle" before parse_thinking_response ran, "split" after
    MODEL_NAME,       \* the configured model name
    messages,         \* the message history
    usage,            \* what get_context_usage returned
    chat_pc,          \* run_thinking_chat: where the loop stands ("off": not running)
    user_input,       \* run_thinking_chat: the stripped line read last
    temp_messages,    \* run_thinking_chat: the history with the prospective user message
    answer,           \* run_thinking_chat: the line typed at the CRITICAL prompt
    choice,           \* run_thinking_chat: the lowered answer to the CRITICAL prompt
    outcome           \* run_thinking_chat: how the last exchange ended

toolsVars == <<fs, call, result, invoked>>
extractVars == <<response, tool_calls, parse_pc>>
execVars == <<tool_results, exec_pc>>
splitVars == <<thinking_process, final_answer, split_pc>>
usageVars == <<MODEL_NAME, messages, usage>>
chatVars == <<chat_pc, user_input, temp_messages, answer, choice, outcome>>

vars == <<toolsVars, extractVars, execVars, splitVars, usageVars, chatVars>>

(***************************************************************************)
(* Bounds of the model                                                     *)
(***************************************************************************)
\* how far around each boundary value (0, 250, 500) lengths and line numbers range
Slack == 2

\* program constant: the most lines one ranged read may return
MAX_LINES == 250

Min(a, b) == IF a <= b THEN a ELSE b
Max(a, b) == IF a >= b THEN a ELSE b

Near(n) == (n - Slack)..(n + Slack)

(***************************************************************************)
(* Python values                                                           *)
(***************************************************************************)
\* None, as the default of ToolResult.error
None == [isNone |-> TRUE, text |-> <<>>]
Str(s) == [isNone |-> FALSE, text |-> s]
\* a str|None value that is None or ""
IsEmpty(v) == v.isNone \/ v.text = <<>>

\* mutant of ToolResult: the error argument is not stored
ToolResult_drops_error(success, content, error) ==
    [status |-> "returned", success |-> success, content |-> content,
     error |-> [isNone |-> TRUE, text |-> <<>>]]

\* class ToolResult
ToolResult(success, content, error) ==
    [status |-> "returned", success |-> success, content |-> content, error |-> error]

\* an exception that left the callee
Raised(exc) ==
    [status |-> "raised", success |-> FALSE, content |-> <<>>, error |-> Str(<<exc>>)]

NoResult == [status |-> "none", success |-> FALSE, content |-> <<>>, error |-> None]

(***************************************************************************)
(* The file system                                                         *)
(***************************************************************************)
workspace_root == <<"/", "ws">>

\* os.path.isabs
isabs(p) == Len(p) > 0 /\ p[1] = "/"
\* os.path.join(a, b): an absolute b replaces a
join(a, b) == IF isabs(b) THEN b ELSE a \o b

\* a whitespace-only line
Blank == 0

\* a text file of `total` lines whose last `blank` lines are whitespace only
TextFile(total, blank) == [total |-> total, blank |-> blank]

\* f.readlines(): every line that is not whitespace only is distinct (its own number)
readlines(text) ==
    [i \in 1..text.total |-> IF i > text.total - text.blank THEN Blank ELSE i]

Absent ==
    [kind |-> "absent", access |-> "ok", utf8 |-> TRUE, text |-> TextFile(0, 0), entries |-> {}]
FileNode(access, utf8, text) ==
    [kind |-> "file", access |-> access, utf8 |-> utf8, text |-> text, entries |-> {}]
DirNode(access, entries) ==
    [kind |-> "dir", access |-> access, utf8 |-> TRUE, text |-> TextFile(0, 0),
     entries |-> entries]

\* a directory entry; names are numbered in lexicographic order
Entry(name, isdir, size, statOk) ==
    [name |-> name, isdir |-> isdir, size |-> size, statOk |-> statOk]

Totals == (0..Slack) \cup {50} \cup Near(MAX_LINES)

FileNodes ==
    UNION {{FileNode("ok", TRUE, TextFile(t, b)) : b \in 0..Min(1, t)} : t \in Totals}
    \cup {FileNode("denied", TRUE, TextFile(3, 0)),
          FileNode("ioerror", TRUE, TextFile(3, 0)),
          FileNode("ok", FALSE, TextFile(3, 0)),
          Absent,
          DirNode("ok", {})}

EntrySets ==
    {{},
     {Entry(2, FALSE, 10, TRUE), Entry(1, TRUE, 0, TRUE)},
     {Entry(3, FALSE, 1023, TRUE), Entry(1, FALSE, 1024, TRUE),
      Entry(2, FALSE, 1048575, TRUE), Entry(4, FALSE, 1048576, TRUE)},
     {Entry(1, FALSE, 5, FALSE)}}

DirNodes ==
    {DirNode("ok", es) : es \in EntrySets}
    \cup {DirNode("denied", {}), DirNode("ioerror", {}), Absent,
          FileNode("ok", TRUE, TextFile(3, 0))}

RelFile == <<"a.py">>
AbsFile == <<"/", "abs.py">>
RelDir == <<"src">>
Dot == <<".">>

Paths == {join(workspace_root, RelFile), AbsFile, join(workspace_root, RelDir), workspace_root}

DefaultFs ==
    [p \in Paths |->
        IF p = workspace_root THEN DirNode("ok", {Entry(1, FALSE, 10, TRUE)})
        ELSE IF p = join(workspace_root, RelFile) THEN FileNode("ok", TRUE, TextFile(50, 0))
        ELSE Absent]

FileSystems ==
    {[DefaultFs EXCEPT ![join(workspace_root, RelFile)] = n] : n \in FileNodes}
    \cup {[DefaultFs EXCEPT ![AbsFile] = FileNode("ok", TRUE, TextFile(2, 0))]}
    \cup {[DefaultFs EXCEPT ![join(workspace_root, RelDir)] = n] : n \in DirNodes}
    \cup {[DefaultFs EXCEPT ![workspace_root] = n] : n \in DirNodes \ {Absent}}

Lookup(fsys, p) == IF p \in DOMAIN fsys THEN fsys[p] ELSE Absent

(***************************************************************************)
(* Tools.read_file                                                         *)
(***************************************************************************)
\* str.rstrip() of the joined lines: trailing whitespace-only lines vanish
RECURSIVE rstrip(_)
rstrip(ls) ==
    IF Len(ls) > 0 /\ ls[Len(ls)] = Blank THEN rstrip(SubSeq(ls, 1, Len(ls) - 1)) ELSE ls

\* mutant of PySlice: the 1-indexed start line is used as the 0-based index
PySlice_from_start_line(ls, a, b) ==
    [i \in 1..Max(0, Min(b, Len(ls)) - (a + 1)) |-> ls[a + 1 + i]]

\* lines[a:b] for 0 <= a, 0 <= b
PySlice(ls, a, b) == [i \in 1..Max(0, Min(b, Len(ls)) - a) |-> ls[a + i]]

\* the summary_parts list
summary_parts(start, end, total_lines) ==
    LET lines_before == start - 1
        lines_after == total_lines - end
    IN  (IF lines_before > 0 THEN << <<"Lines ", 1, "-", lines_before, " not shown">> >> ELSE <<>>)
        \o (IF lines_after > 0
            THEN << <<"Lines ", end + 1, "-", total_lines, " not shown">> >> ELSE <<>>)

\* the `summary` string: the parts joined with " | ", or the default note
summary(parts) ==
    IF parts # <<>> THEN <<"joined", parts>> ELSE <<"Complete file section shown">>

\* mutant of too_many_lines: the limit is off by one
too_many_lines_off_by_one(lines_to_read) == lines_to_read > MAX_LINES + 1

\* a variant without the check
too_many_lines_never(lines_to_read) == FALSE

\* the check `lines_to_read > 250`
too_many_lines(lines_to_read) == lines_to_read > MAX_LINES

\* the ranged branch of read_file, after the file was read
read_range(target_file, lines, start, end) ==
    LET total_lines == Len(lines) IN
    IF start < 1 THEN ToolResult(FALSE, <<>>, Str(<<"Start line must be >= 1">>))
    ELSE IF end < start THEN ToolResult(FALSE, <<>>, Str(<<"End line must be >= start line">>))
    ELSE
      LET start_idx == start - 1
          end_idx == Min(end, total_lines)
          lines_to_read == end_idx - start_idx
      IN
      IF too_many_lines(lines_to_read)
      THEN ToolResult(FALSE, <<>>, Str(<<"Cannot read more than 250 lines at once">>))
      ELSE
        LET requested_lines == PySlice(lines, start_idx, end_idx)
            parts == summary_parts(start, end, total_lines)
            actual_end == Min(end, total_lines)
            header ==
                IF end > total_lines
                THEN <<"Requested to read lines ", start, "-", end,
                       ", but returning lines ", start, "-", total_lines, " (end of file).">>
                ELSE <<"Contents of ", target_file, ", lines ", start, "-", actual_end, ":">>
            block == <<"[fence]", rstrip(requested_lines), "[fence]">>
        IN  ToolResult(TRUE,
                       <<header, block>>
                       \o (IF parts # <<>> THEN << <<"Summary: ", summary(parts)>> >> ELSE <<>>),
                       None)

\* the entire-file branch of read_file
read_entire(target_file, lines) ==
    ToolResult(TRUE,
               << <<"Contents of ", target_file, ", lines ", 1, "-", Len(lines), " (entire file):">>,
                  <<"[fence]", rstrip(lines), "[fence]">> >>,
               None)

\* mutant of read_file: the range is validated before the whole-file flag is looked at
read_file_validates_first(fsys, target_file, should_read_entire_file, start, end, explanation) ==
    LET file_path == IF isabs(target_file) THEN target_file
                     ELSE join(workspace_root, target_file)
        node == Lookup(fsys, file_path)
        ranged == read_range(target_file, readlines(node.text), start, end)
    IN
    IF node.kind = "absent"
    THEN ToolResult(FALSE, <<>>, Str(<<"File not found: ", target_file>>))
    ELSE IF node.access = "denied"
    THEN ToolResult(FALSE, <<>>, Str(<<"Permission denied reading file: ", target_file>>))
    ELSE IF node.kind = "dir" \/ node.access = "ioerror"
    THEN ToolResult(FALSE, <<>>, Str(<<"Error reading file ", target_file, ": ", "OSError">>))
    ELSE IF ~node.utf8
    THEN ToolResult(FALSE, <<>>,
                    Str(<<"Cannot read file ", target_file, ": File contains non-UTF-8 content">>))
    ELSE IF should_read_entire_file /\ ranged.success
    THEN read_entire(target_file, readlines(node.text))
    ELSE ranged

read_file(fsys, target_file, should_read_entire_file, start, end, explanation) ==
    LET file_path == IF isabs(target_file) THEN target_file
                     ELSE join(workspace_root, target_file)
        node == Lookup(fsys, file_path)
    IN
    IF node.kind = "absent"
    THEN ToolResult(FALSE, <<>>, Str(<<"File not found: ", target_file>>))
    ELSE IF node.access = "denied"
    THEN ToolResult(FALSE, <<>>, Str(<<"Permission denied reading file: ", target_file>>))
    ELSE IF node.kind = "dir" \/ node.access = "ioerror"
    THEN ToolResult(FALSE, <<>>, Str(<<"Error reading file ", target_file, ": ", "OSError">>))
    ELSE IF ~node.utf8
    THEN ToolResult(FALSE, <<>>,
                    Str(<<"Cannot read file ", target_file, ": File contains non-UTF-8 content">>))
    ELSE IF should_read_entire_file
    THEN read_entire(target_file, readlines(node.text))
    ELSE read_range(target_file, readlines(node.text), start, end)

(***************************************************************************)
(* Tools.list_dir                                                          *)
(***************************************************************************)
\* sorted(os.listdir(dir_path)): the entries in ascending name order
RECURSIVE sorted(_)
sorted(es) ==
    IF es = {} THEN <<>>
    ELSE LET first == CHOOSE e \in es : \A o \in es : e.name <= o.name
         IN  <<first>> \o sorted(es \ {first})

size_str(size) ==
    IF size < 1024 THEN <<size, "B">>
    ELSE IF size < 1024 * 1024 THEN <<size \div 1024, "KB">>
    ELSE <<size \div (1024 * 1024), "MB">>

item_str(e) ==
    IF e.isdir THEN <<"dir ", e.name, "/">> ELSE <<"file ", e.name, " (", size_str(e.size), ")">>

list_dir(fsys, relative_workspace_path, explanation) ==
    LET dir_path == IF relative_workspace_path = Dot THEN workspace_root
                    ELSE join(workspace_root, relative_workspace_path)
        node == Lookup(fsys, dir_path)
    IN
    IF node.kind = "absent"
    THEN ToolResult(FALSE, <<>>, Str(<<"Directory not found: ", relative_workspace_path>>))
    ELSE IF node.kind # "dir"
    THEN ToolResult(FALSE, <<>>, Str(<<"Path is not a directory: ", relative_workspace_path>>))
    ELSE IF node.access = "denied"
    THEN ToolResult(FALSE, <<>>,
                    Str(<<"Permission denied accessing directory: ", relative_workspace_path>>))
    ELSE IF node.access = "ioerror" \/ \E e \in node.entries : ~e.isdir /\ ~e.statOk
    THEN ToolResult(FALSE, <<>>,
                    Str(<<"Error listing directory ", relative_workspace_path, ": ", "OSError">>))
    ELSE
      LET es == sorted(node.entries)
          items == [i \in 1..Len(es) |-> item_str(es[i])]
      IN  IF items = <<>>
          THEN ToolResult(TRUE, <<"Directory '", relative_workspace_path, "' is empty.">>, None)
          ELSE ToolResult(TRUE, <<"Contents of '", relative_workspace_path, "':", items>>, None)

(***************************************************************************)
(* Tools.execute_tool                                                      *)
(***************************************************************************)
read_file_required ==
    <<"target_file", "should_read_entire_file", "start_line_one_indexed",
      "end_line_one_indexed_inclusive", "explanation">>
list_dir_required == <<"relative_workspace_path", "explanation">>

Range(s) == {s[i] : i \in 1..Len(s)}

\* mutant of missing_params: the scan stops at the first absent key
RECURSIVE missing_params_first_only(_, _)
missing_params_first_only(required_params, kwargs) ==
    IF required_params = <<>> THEN <<>>
    ELSE IF Head(required_params) \notin DOMAIN kwargs THEN <<Head(required_params)>>
    ELSE missing_params_first_only(Tail(required_params), kwargs)

\* [param for param in required_params if param not in kwargs]
RECURSIVE missing_params(_, _)
missing_params(required_params, kwargs) ==
    IF required_params = <<>> THEN <<>>
    ELSE (IF Head(required_params) \notin DOMAIN kwargs THEN <<Head(required_params)>> ELSE <<>>)
         \o missing_params(Tail(required_params), kwargs)

\* whether f(**kwargs) binds: a keyword the function does not declare is a TypeError
binds(required_params, kwargs) == DOMAIN kwargs \subseteq Range(required_params)

\* the outcome of execute_tool and the tool function it delegated to
execute_tool(fsys, tool_name, kwargs) ==
    IF tool_name = "read_file"
    THEN LET missing == missing_params(read_file_required, kwargs) IN
         IF missing # <<>>
         THEN [res |-> ToolResult(FALSE, <<>>, Str(<<"Missing required parameters: ", missing>>)),
               fn |-> "none"]
         ELSE IF ~binds(read_file_required, kwargs)
         THEN [res |-> Raised("TypeError"), fn |-> "none"]
         ELSE [res |-> read_file(fsys, kwargs["target_file"], kwargs["should_read_entire_file"],
                                 kwargs["start_line_one_indexed"],
                                 kwargs["end_line_one_indexed_inclusive"], kwargs["explanation"]),
               fn |-> "read_file"]
    ELSE IF tool_name = "list_dir"
    THEN LET missing == missing_params(list_dir_required, kwargs) IN
         IF missing # <<>>
         THEN [res |-> ToolResult(FALSE, <<>>, Str(<<"Missing required parameters: ", missing>>)),
               fn |-> "none"]
         ELSE IF ~binds(list_dir_required, kwargs)
         THEN [res |-> Raised("TypeError"), fn |-> "none"]
         ELSE [res |-> list_dir(fsys, kwargs["relative_workspace_path"], kwargs["explanation"]),
               fn |-> "list_dir"]
    ELSE [res |-> ToolResult(FALSE, <<>>, Str(<<"Unknown tool: ", tool_name>>)), fn |-> "none"]

(***************************************************************************)
(* The tool set as a state machine: a caller invokes read_file, list_dir    *)
(* or execute_tool on a fixed file system, any number of times.             *)
(***************************************************************************)
Why == <<"why">>

Targets == {RelFile, AbsFile}
Starts == ((-1)..Slack) \cup {5, 50, 51} \cup Near(MAX_LINES)
Ends == ((-1)..Slack) \cup {50, 2000} \cup Near(MAX_LINES) \cup Near(2 * MAX_LINES)
DirArgs == {Dot, RelDir, <<"nodir">>}

ToolNames == {"read_file", "list_dir", "write_file"}

\* a keyword argument that is given (with its value) or left out
Given(v) == {v}
Omitted == {}
Opt(values) == {Given(v) : v \in values} \cup {Omitted}

\* the keyword mapping of the options that are given
Kwargs(opts) ==
    [k \in {k \in DOMAIN opts : opts[k] # Omitted} |-> CHOOSE v \in opts[k] : TRUE]

\* execute_tools has not been called
InitExec == tool_results = <<>> /\ exec_pc = "idle"
\* parse_thinking_response has not been called
InitSplit == thinking_process = <<>> /\ final_answer = <<>> /\ split_pc = "idle"

\* get_context_usage has not been called; the module is configured as in the source
NoUsage == [current_tokens |-> 0, max_tokens |-> 0, status |-> "none"]
InitUsage == MODEL_NAME = "llama-3.2-3b" /\ messages = <<>> /\ usage = NoUsage

\* run_thinking_chat is not running
NoInput == [text |-> <<>>, fill |-> 0]
InitChat ==
    /\ chat_pc = "off"
    /\ user_input = NoInput
    /\ temp_messages = <<>>
    /\ answer = ""
    /\ choice = ""
    /\ outcome = "none"

NoCall == [op |-> "none", tool_name |-> "none", kwargs |-> <<>>]

InitCommon ==
    /\ call = NoCall
    /\ result = NoResult
    /\ invoked = "none"
    /\ response = <<>>
    /\ tool_calls = <<>>
    /\ parse_pc = "idle"
    /\ InitExec
    /\ InitSplit
    /\ InitUsage
    /\ InitChat

InitTools ==
    /\ fs \in FileSystems
    /\ InitCommon

\* no operation is in progress: the caller may invoke one
Idle == call.op = "none"

ReadFile ==
    \E t \in Targets, whole \in BOOLEAN, s \in Starts, e \in Ends :
        /\ Idle
        /\ call' = [op |-> "read_file", tool_name |-> "read_file",
                    kwargs |-> [target_file |-> t, should_read_entire_file |-> whole,
                                start_line_one_indexed |-> s,
                                end_line_one_indexed_inclusive |-> e, explanation |-> Why]]
        /\ result' = read_file(fs, t, whole, s, e, Why)
        /\ invoked' = "read_file"
        /\ UNCHANGED <<fs, extractVars, execVars, splitVars, usageVars, chatVars>>

ListDir ==
    \E p \in DirArgs :
        /\ Idle
        /\ call' = [op |-> "list_dir", tool_name |-> "list_dir",
                    kwargs |-> [relative_workspace_path |-> p, explanation |-> Why]]
        /\ result' = list_dir(fs, p, Why)
        /\ invoked' = "list_dir"
        /\ UNCHANGED <<fs, extractVars, execVars, splitVars, usageVars, chatVars>>

ExecuteTool ==
    \E name \in ToolNames,
       t \in Opt({RelFile}), whole \in Opt(BOOLEAN), s \in Opt({1}), e \in Opt({50, 2000}),
       x \in Opt({Why}), p \in Opt({Dot, RelDir}), extra \in Opt({1}) :
        LET kwargs == Kwargs([target_file |-> t, should_read_entire_file |-> whole,
                              start_line_one_indexed |-> s,
                              end_line_one_indexed_inclusive |-> e, explanation |-> x,
                              relative_workspace_path |-> p, verbose |-> extra])
            out == execute_tool(fs, name, kwargs)
        IN  /\ Idle
            /\ call' = [op |-> "execute_tool", tool_name |-> name, kwargs |-> kwargs]
            /\ result' = out.res
            /\ invoked' = out.fn
            /\ UNCHANGED <<fs, extractVars, execVars, splitVars, usageVars, chatVars>>

\* the caller takes the outcome; the next operation may start
Return ==
    /\ ~Idle
    /\ call' = NoCall
    /\ result' = NoResult
    /\ invoked' = "none"
    /\ UNCHANGED <<fs, extractVars, execVars, splitVars, usageVars, chatVars>>

NextTools == ReadFile \/ ListDir \/ ExecuteTool \/ Return

SpecTools == InitTools /\ [][NextTools]_vars

(***************************************************************************)
(* parse_tool_calls: the text of a response                                *)
(*                                                                         *)
(* A response is a sequence of tokens: prose, a fence opener (three        *)
(* backticks, "python", newline), a fence closer (newline, three           *)
(* backticks) and calls TOOL:name(key=raw, key=raw, ...).  The raw text of  *)
(* an argument is a sequence of lexemes: a double quote, a single quote, a  *)
(* blank, a decimal digit, or a run of other characters.  No lexeme holds   *)
(* a comma, a parenthesis or an equals sign.                               *)
(***************************************************************************)
DQ == "\""
SQ == "'"
WS == " "
Quotes == {DQ, SQ}
Digits == {"0", "1", "2", "3", "4", "5", "6", "7", "8", "9"}

Text == [t |-> "text", name |-> "", args |-> <<>>]
FenceOpen == [t |-> "fence_open", name |-> "", args |-> <<>>]
FenceClose == [t |-> "fence_close", name |-> "", args |-> <<>>]
Call(name, args) == [t |-> "call", name |-> name, args |-> args]
Arg(key, raw) == [key |-> key, raw |-> raw]

SeqMin(S) == CHOOSE x \in S : \A y \in S : x <= y

\* re.findall(tool_pattern, text, re.DOTALL): (tool_name, params_str) of every
\* TOOL:name(...) in the text, in order
RECURSIVE find_tool_pattern(_)
find_tool_pattern(tokens) ==
    IF tokens = <<>> THEN <<>>
    ELSE (IF Head(tokens).t = "call" THEN <<Head(tokens)>> ELSE <<>>)
         \o find_tool_pattern(Tail(tokens))

\* re.findall(code_block_pattern, response, re.DOTALL): the text between each
\* fence opener and the nearest fence closer after it, without overlap
RECURSIVE find_code_blocks(_)
find_code_blocks(tokens) ==
    IF tokens = <<>> THEN <<>>
    ELSE IF Head(tokens).t = "fence_open"
    THEN LET rest == Tail(tokens)
             closers == {i \in 1..Len(rest) : rest[i].t = "fence_close"}
         IN  IF closers = {} THEN find_code_blocks(rest)
             ELSE <<SubSeq(rest, 1, SeqMin(closers) - 1)>>
                  \o find_code_blocks(SubSeq(rest, SeqMin(closers) + 1, Len(rest)))
    ELSE find_code_blocks(Tail(tokens))

\* the loop `for code_block in code_blocks: matches.extend(...)`
RECURSIVE extend_matches(_)
extend_matches(code_blocks) ==
    IF code_blocks = <<>> THEN <<>>
    ELSE find_tool_pattern(Head(code_blocks)) \o extend_matches(Tail(code_blocks))

\* the list `matches` the loop runs over
all_matches(resp) == find_tool_pattern(resp) \o extend_matches(find_code_blocks(resp))

(***************************************************************************)
(* The patterns applied to params_str                                      *)
(***************************************************************************)
NoMatch == [found |-> FALSE, group |-> <<>>]
Match(g) == [found |-> TRUE, group |-> g]

\* \s* at the head of the text
RECURSIVE skip_ws(_)
skip_ws(raw) == IF raw # <<>> /\ Head(raw) = WS THEN skip_ws(Tail(raw)) ELSE raw

\* the longest prefix whose lexemes all lie in / outside a class
RECURSIVE take_in(_, _)
take_in(raw, class) ==
    IF raw # <<>> /\ Head(raw) \in class THEN <<Head(raw)>> \o take_in(Tail(raw), class)
    ELSE <<>>
RECURSIVE take_not_in(_, _)
take_not_in(raw, class) ==
    IF raw # <<>> /\ Head(raw) \notin class
    THEN <<Head(raw)>> \o take_not_in(Tail(raw), class)
    ELSE <<>>

\* ["\']([^"\']+)["\']  (atLeast = 1)   and   ["\']([^"\']*)["\']  (atLeast = 0)
quoted(raw, atLeast) ==
    LET r == skip_ws(raw) IN
    IF r = <<>> \/ Head(r) \notin Quotes THEN NoMatch
    ELSE LET run == take_not_in(Tail(r), Quotes) IN
         IF Len(run) >= atLeast /\ Len(r) >= Len(run) + 2 THEN Match(run) ELSE NoMatch

\* ([^,\s)]+)
bare(raw) ==
    LET run == take_not_in(skip_ws(raw), {WS}) IN
    IF run # <<>> THEN Match(run) ELSE NoMatch

\* (\d+)
digits(raw) ==
    LET run == take_in(skip_ws(raw), Digits) IN
    IF run # <<>> THEN Match(run) ELSE NoMatch

\* str.lower() of a word
\* a variant that keeps the case
lower_keeps_case(w) == w

lower(w) ==
    IF w \in {"true", "True", "TRUE"} THEN "true"
    ELSE IF w \in {"false", "False", "FALSE"} THEN "false"
    ELSE IF w \in {"Quit", "QUIT"} THEN "quit"
    ELSE IF w \in {"Exit", "EXIT"} THEN "exit"
    ELSE IF w \in {"Clear", "CLEAR"} THEN "clear"
    ELSE IF w = "Y" THEN "y"
    ELSE w

\* (true|false) under re.IGNORECASE
boolean(raw) ==
    LET r == skip_ws(raw) IN
    IF r # <<>> /\ lower(Head(r)) \in {"true", "false"} THEN Match(<<Head(r)>>) ELSE NoMatch

apply_pattern(pattern, raw) ==
    CASE pattern = "quoted+" -> quoted(raw, 1)
      [] pattern = "quoted*" -> quoted(raw, 0)
      [] pattern = "bare" -> bare(raw)
      [] pattern = "digits" -> digits(raw)
      [] pattern = "boolean" -> boolean(raw)

\* re.search(key\s*=\s*<pattern>, params_str): the first place where the key is
\* followed by text the pattern matches
search(key, pattern, params_str) ==
    LET hits == {i \in 1..Len(params_str) :
                    params_str[i].key = key /\ apply_pattern(pattern, params_str[i].raw).found}
    IN  IF hits = {} THEN NoMatch
        ELSE apply_pattern(pattern, params_str[SeqMin(hits)].raw)

digit_value(d) ==
    CASE d = "0" -> 0 [] d = "1" -> 1 [] d = "2" -> 2 [] d = "3" -> 3 [] d = "4" -> 4
      [] d = "5" -> 5 [] d = "6" -> 6 [] d = "7" -> 7 [] d = "8" -> 8 [] d = "9" -> 9

\* int(s) of a string of decimal digits
RECURSIVE int(_)
int(ds) ==
    IF ds = <<>> THEN 0 ELSE 10 * int(SubSeq(ds, 1, Len(ds) - 1)) + digit_value(ds[Len(ds)])

(***************************************************************************)
(* parse_tool_calls: one match                                             *)
(***************************************************************************)
\* what one iteration of the loop makes of a match: whether it reached the
\* de-duplication step, the call, and its call_id
Dropped == [kept |-> FALSE, name |-> "", params |-> <<>>, call_id |-> <<>>]
Parsed(name, params, call_id) ==
    [kept |-> TRUE, name |-> name, params |-> params, call_id |-> call_id]

\* str.strip()
RECURSIVE rstrip_ws(_)
rstrip_ws(raw) ==
    IF raw # <<>> /\ raw[Len(raw)] = WS THEN rstrip_ws(SubSeq(raw, 1, Len(raw) - 1)) ELSE raw
strip(raw) == rstrip_ws(skip_ws(raw))

\* a variant that supplies a placeholder where neither pattern finds a value
target_file_match_placeholder(params_str) ==
    IF search("target_file", "quoted+", params_str).found
    THEN search("target_file", "quoted+", params_str)
    ELSE IF search("target_file", "bare", params_str).found
    THEN search("target_file", "bare", params_str)
    ELSE Match(<<"unknown">>)

\* the value found by the patterns for target_file: quoted, else unquoted
target_file_match(params_str) ==
    IF search("target_file", "quoted+", params_str).found
    THEN search("target_file", "quoted+", params_str)
    ELSE search("target_file", "bare", params_str)

parse_read_file(tool_name, params_str) ==
    LET target_file_m == target_file_match(params_str)
        entire_m == search("should_read_entire_file", "boolean", params_str)
        start_m == search("start_line_one_indexed", "digits", params_str)
        end_m == search("end_line_one_indexed_inclusive", "digits", params_str)
        explanation_m == search("explanation", "quoted+", params_str)
    IN
    IF ~target_file_m.found THEN Dropped
    ELSE
      LET params ==
            [target_file |-> strip(target_file_m.group),
             should_read_entire_file |->
                 IF entire_m.found THEN lower(entire_m.group[1]) = "true" ELSE FALSE,
             start_line_one_indexed |-> IF start_m.found THEN int(start_m.group) ELSE 1,
             end_line_one_indexed_inclusive |-> IF end_m.found THEN int(end_m.group) ELSE 50,
             explanation |->
                 IF explanation_m.found THEN explanation_m.group
                 ELSE <<"Reading file ">> \o strip(target_file_m.group)]
      IN  Parsed(tool_name, params,
                 <<tool_name, params.target_file, params.start_line_one_indexed,
                   params.end_line_one_indexed_inclusive>>)

parse_list_dir(tool_name, params_str) ==
    LET path_m == search("relative_workspace_path", "quoted*", params_str)
        explanation_m == search("explanation", "quoted+", params_str)
        path == IF path_m.found THEN path_m.group ELSE <<".">>
        params ==
            [relative_workspace_path |-> path,
             explanation |->
                 IF explanation_m.found THEN explanation_m.group
                 ELSE <<"Listing directory ">> \o path]
    IN  Parsed(tool_name, params, <<tool_name, path>>)

\* the values the generic branch produces
PyBool(b) == [type |-> "bool", b |-> b, n |-> 0, s |-> <<>>]
PyInt(n) == [type |-> "int", b |-> FALSE, n |-> n, s |-> <<>>]
PyStr(s) == [type |-> "str", b |-> FALSE, n |-> 0, s |-> s]

\* the if/elif chain that coerces one generic value
coerce(value) ==
    IF Len(value) = 1 /\ lower(value[1]) = "true" THEN PyBool(TRUE)
    ELSE IF Len(value) = 1 /\ lower(value[1]) = "false" THEN PyBool(FALSE)
    ELSE IF value # <<>> /\ value[1] = DQ /\ value[Len(value)] = DQ
    THEN PyStr(SubSeq(value, 2, Len(value) - 1))
    ELSE IF value # <<>> /\ value[1] = SQ /\ value[Len(value)] = SQ
    THEN PyStr(SubSeq(value, 2, Len(value) - 1))
    ELSE IF value # <<>> /\ \A i \in 1..Len(value) : value[i] \in Digits
    THEN PyInt(int(value))
    ELSE PyStr(value)

\* re.findall(r'(\w+)\s*=\s*([^,]+)', params_str) folded into the dict: a key
\* with no text before the next comma gives no pair, a repeated key keeps its
\* last value
parse_generic(tool_name, params_str) ==
    LET pairs == {i \in 1..Len(params_str) : params_str[i].raw # <<>>}
        keys == {params_str[i].key : i \in pairs}
        last(k) == CHOOSE i \in pairs :
                      params_str[i].key = k /\ \A j \in pairs : params_str[j].key = k => j <= i
        params == [k \in keys |-> coerce(strip(params_str[last(k)].raw))]
    IN  Parsed(tool_name, params, <<tool_name, params>>)

\* the body of the loop up to the de-duplication step
parse_match(m) ==
    IF m.name = "read_file" THEN parse_read_file(m.name, m.args)
    ELSE IF m.name = "list_dir" THEN parse_list_dir(m.name, m.args)
    ELSE parse_generic(m.name, m.args)

\* a variant that remembers only the call_id added last
in_seen_calls_last_only(call_id, seen_calls) ==
    /\ seen_calls # <<>>
    /\ seen_calls[Len(seen_calls)][1] = call_id[1]
    /\ seen_calls[Len(seen_calls)] = call_id

\* call_id in seen_calls; call ids of different tools differ in their first part
in_seen_calls(call_id, seen_calls) ==
    \E i \in 1..Len(seen_calls) :
        seen_calls[i][1] = call_id[1] /\ seen_calls[i] = call_id

ToolCallOf(p) == [name |-> p.name, params |-> p.params]

\* the loop `for tool_name, params_str in matches`
RECURSIVE parse_loop(_, _, _)
parse_loop(matches, seen_calls, calls) ==
    IF matches = <<>> THEN calls
    ELSE LET p == parse_match(Head(matches)) IN
         IF p.kept /\ ~in_seen_calls(p.call_id, seen_calls)
         THEN parse_loop(Tail(matches), Append(seen_calls, p.call_id),
                         Append(calls, ToolCallOf(p)))
         ELSE parse_loop(Tail(matches), seen_calls, calls)

parse_tool_calls(resp) == parse_loop(all_matches(resp), <<>>, <<>>)

(***************************************************************************)
(* The extractor as a state machine: a response arrives, parse_tool_calls   *)
(* runs on it once.                                                        *)
(***************************************************************************)
\* the most calls in one response
MaxCalls == 2

\* an argument that is written (with its raw text) or left out
ArgIf(key, opt) == IF opt = Omitted THEN <<>> ELSE <<Arg(key, CHOOSE raw \in opt : TRUE)>>

TargetRaws ==
    {<<DQ, "a.py", DQ>>, <<SQ, "b.py", SQ>>, <<"a.py">>, <<DQ, "it", SQ, "s.py", DQ>>,
     <<DQ, DQ>>, <<>>}
EntireRaws == {<<"true">>, <<"False">>}
StartRaws == {<<"5">>, <<"1", "2">>}
EndRaws == {<<"2", "0">>, <<"2", "0", "0", "0">>}
ExplanationRaws ==
    {<<DQ, "why", DQ>>, <<SQ, "how", WS, "so", SQ>>, <<DQ, "file", SQ, "s", WS, "top", DQ>>}
PathRaws == {<<DQ, ".", DQ>>, <<SQ, "src", SQ>>, <<DQ, DQ>>, <<"src">>}
FlagRaws == {<<"true">>, <<DQ, "true", DQ>>, <<"1">>, <<WS>>}

ReadFileCall(t, w, s, e, x) ==
    Call("read_file",
         ArgIf("target_file", t) \o ArgIf("should_read_entire_file", w)
         \o ArgIf("start_line_one_indexed", s) \o ArgIf("end_line_one_indexed_inclusive", e)
         \o ArgIf("explanation", x))
ListDirCall(p, x) ==
    Call("list_dir", ArgIf("relative_workspace_path", p) \o ArgIf("explanation", x))
OtherCall(name, p, f) == Call(name, ArgIf("path", p) \o ArgIf("force", f))

BaseTarget == Given(<<DQ, "a.py", DQ>>)
BaseEntire == Given(<<"true">>)
BaseStart == Given(<<"5">>)
BaseEnd == Given(<<"2", "0">>)
BaseExplanation == Given(<<DQ, "why", DQ>>)
BasePath == Given(<<SQ, "src", SQ>>)

\* every combination of the argument forms: the calls tried one per response
WideCalls ==
    {ReadFileCall(t, w, s, e, x) :
        t \in Opt(TargetRaws), w \in Opt(EntireRaws), s \in Opt(StartRaws),
        e \in Opt(EndRaws), x \in Opt(ExplanationRaws)}
    \cup {ListDirCall(p, x) : p \in Opt(PathRaws), x \in Opt(ExplanationRaws)}
    \cup {OtherCall(n, p, f) :
            n \in {"write_file", "grep"}, p \in Opt(TargetRaws), f \in Opt(FlagRaws)}

\* the calls tried several per response: the base call of each tool, calls of
\* the same identity written differently, calls of another identity, and
\* read_file calls that give no target_file
NarrowCalls ==
    {ReadFileCall(t, BaseEntire, BaseStart, BaseEnd, BaseExplanation) :
        t \in {BaseTarget, Given(<<"a.py">>), Given(<<>>), Omitted}}
    \cup {ReadFileCall(BaseTarget, Given(<<"False">>), BaseStart, BaseEnd, BaseExplanation),
          ReadFileCall(BaseTarget, BaseEntire, Given(<<"1", "2">>), BaseEnd, BaseExplanation),
          ReadFileCall(BaseTarget, BaseEntire, BaseStart, BaseEnd,
                       Given(<<DQ, "file", SQ, "s", WS, "top", DQ>>))}
    \cup {ListDirCall(p, BaseExplanation) : p \in {BasePath, Given(<<DQ, ".", DQ>>), Omitted}}
    \cup {ListDirCall(BasePath, Omitted)}
    \cup {OtherCall("write_file", BaseTarget, f) :
            f \in {Given(<<"true">>), Given(<<DQ, "true", DQ>>)}}
    \cup {OtherCall("grep", BaseTarget, Given(<<"true">>)),
          OtherCall("write_file", Given(<<SQ, "a.py", SQ>>), Given(<<"true">>))}

Item(c, wrap) == [call |-> c, wrap |-> wrap]

\* the text of a response whose calls stand in prose ("plain"), each in a code
\* fence of its own ("fenced"), or after a fence opener that is never closed
RECURSIVE Render(_)
Render(items) ==
    IF items = <<>> THEN <<Text>>
    ELSE LET it == Head(items) IN
         (CASE it.wrap = "plain" -> <<Text, it.call>>
            [] it.wrap = "fenced" -> <<Text, FenceOpen, it.call, FenceClose>>
            [] it.wrap = "unclosed" -> <<Text, FenceOpen, it.call>>)
         \o Render(Tail(items))

\* the text of a response whose calls stand together in one code fence
RenderBlock(calls) == <<Text, FenceOpen>> \o calls \o <<FenceClose, Text>>

Responses(most) ==
    {<<Text>>}
    \cup {Render(<<Item(c, w)>>) : c \in WideCalls, w \in {"plain", "fenced", "unclosed"}}
    \cup UNION {{Render(items) :
                    items \in [1..n -> {Item(c, w) : c \in NarrowCalls,
                                                     w \in {"plain", "fenced"}}]} :
                n \in 2..most}
    \cup UNION {{RenderBlock(calls) : calls \in [1..n -> NarrowCalls]} : n \in 2..most}

InitExtract ==
    /\ fs = DefaultFs
    /\ call = NoCall
    /\ result = NoResult
    /\ invoked = "none"
    /\ response \in Responses(MaxCalls)
    /\ tool_calls = <<>>
    /\ parse_pc = "idle"
    /\ InitExec
    /\ InitSplit
    /\ InitUsage
    /\ InitChat

ParseToolCalls ==
    /\ parse_pc = "idle"
    /\ tool_calls' = parse_tool_calls(response)
    /\ parse_pc' = "parsed"
    /\ UNCHANGED <<toolsVars, response, execVars, splitVars, usageVars, chatVars>>

NextExtract == ParseToolCalls

SpecExtract == InitExtract /\ [][NextExtract]_vars

(***************************************************************************)
(* execute_tools                                                           *)
(***************************************************************************)
\* whether tools.execute_tool(tool_name, **params) binds: execute_tool declares
\* (self, tool_name, **kwargs), so a key "tool_name" or "self" in params gives
\* that parameter a second value, a TypeError raised at the call
binds_call(params) == "tool_name" \notin DOMAIN params /\ "self" \notin DOMAIN params

\* result = tools.execute_tool(tool_name, **params)
dispatch(fsys, tool_call) ==
    IF ~binds_call(tool_call.params) THEN Raised("TypeError")
    ELSE execute_tool(fsys, tool_call.name, tool_call.params).res

(***************************************************************************)
(* The batch as a state machine: a response arrives, parse_tool_calls runs *)
(* on it, and when it found calls execute_tools runs on them, one          *)
(* iteration of its loop per step.                                         *)
(***************************************************************************)
\* generic calls whose key is the name of a parameter of execute_tool
ClashCalls ==
    {Call("grep", <<Arg("tool_name", <<"x">>)>>),
     Call("grep", <<Arg("path", <<DQ, "a.py", DQ>>), Arg("self", <<"1">>)>>),
     Call("read_file", <<Arg("target_file", <<DQ, "a.py", DQ>>), Arg("tool_name", <<"x">>)>>)}

BatchCalls == NarrowCalls \cup ClashCalls

BatchResponses(most) ==
    {<<Text>>}
    \cup {Render(<<Item(c, w)>>) : c \in WideCalls \cup ClashCalls, w \in {"plain", "fenced"}}
    \cup UNION {{Render(items) : items \in [1..n -> {Item(c, "plain") : c \in BatchCalls}]} :
                n \in 2..most}

InitBatch ==
    /\ fs = DefaultFs
    /\ call = NoCall
    /\ result = NoResult
    /\ invoked = "none"
    /\ response \in BatchResponses(MaxCalls)
    /\ tool_calls = <<>>
    /\ parse_pc = "idle"
    /\ InitExec
    /\ InitSplit
    /\ InitUsage
    /\ InitChat

\* one iteration of `for tool_name, params in tool_calls`; an exception of the
\* call leaves execute_tools, its results list is lost
ExecuteNext ==
    /\ parse_pc = "parsed"
    /\ tool_calls # <<>>
    /\ exec_pc \in {"idle", "running"}
    /\ Len(tool_results) < Len(tool_calls)
    /\ LET r == dispatch(fs, tool_calls[Len(tool_results) + 1]) IN
       IF r.status = "raised"
       THEN exec_pc' = "raised" /\ UNCHANGED tool_results
       ELSE exec_pc' = "running" /\ tool_results' = Append(tool_results, r)
    /\ UNCHANGED <<toolsVars, extractVars, splitVars, usageVars, chatVars>>

\* return results
ReturnResults ==
    /\ exec_pc = "running"
    /\ Len(tool_results) = Len(tool_calls)
    /\ exec_pc' = "returned"
    /\ UNCHANGED <<toolsVars, extractVars, tool_results, splitVars, usageVars, chatVars>>

NextBatch == ParseToolCalls \/ ExecuteNext \/ ReturnResults

SpecBatch == InitBatch /\ [][NextBatch]_vars

(***************************************************************************)
(* parse_thinking_response                                                 *)
(*                                                                         *)
(* The text split here is a sequence of pieces without code fences: the    *)
(* pieces "<thi", "</thi" and "nking>" (a tag is two pieces, so a tag can   *)
(* be torn apart and put together), a newline, a blank, and pieces of      *)
(* other text.                                                             *)
(***************************************************************************)
Chr(c) == [t |-> c, name |-> "", args |-> <<>>]
NL == Chr("\n")
SP == Chr(" ")
OpenTag == <<Chr("<thi"), Chr("nking>")>>
CloseTag == <<Chr("</thi"), Chr("nking>")>>
isspace(piece) == piece \in {NL, SP}

\* the text holds `tag` at position i
TagAt(text, i, tag) ==
    /\ i >= 1 /\ i + Len(tag) - 1 <= Len(text)
    /\ SubSeq(text, i, i + Len(tag) - 1) = tag

\* str.lstrip(), str.rstrip(), str.strip()
RECURSIVE text_lstrip(_)
text_lstrip(text) ==
    IF text # <<>> /\ isspace(Head(text)) THEN text_lstrip(Tail(text)) ELSE text
RECURSIVE text_rstrip(_)
text_rstrip(text) ==
    IF text # <<>> /\ isspace(text[Len(text)])
    THEN text_rstrip(SubSeq(text, 1, Len(text) - 1))
    ELSE text
text_strip(text) == text_rstrip(text_lstrip(text))

NoThinkingMatch == [found |-> FALSE, start |-> 0, close |-> 0, group |-> <<>>]

\* a variant of the search whose (.*) is greedy: it runs to the last closing tag
thinking_match_greedy(text) ==
    LET opens == {i \in 1..Len(text) :
                    TagAt(text, i, OpenTag)
                    /\ \E j \in (i + 2)..Len(text) : TagAt(text, j, CloseTag)}
    IN  IF opens = {} THEN NoThinkingMatch
        ELSE LET i == SeqMin(opens)
                 j == CHOOSE k \in (i + 2)..Len(text) :
                        /\ TagAt(text, k, CloseTag)
                        /\ \A l \in (k + 1)..Len(text) : ~TagAt(text, l, CloseTag)
             IN  [found |-> TRUE, start |-> i, close |-> j,
                  group |-> SubSeq(text, i + 2, j - 1)]

\* re.search(r'<thinking>(.*?)</thinking>', response, re.DOTALL): the leftmost
\* opening tag that has a closing tag after it, up to the nearest such closing tag
thinking_match(text) ==
    LET opens == {i \in 1..Len(text) :
                    TagAt(text, i, OpenTag)
                    /\ \E j \in (i + 2)..Len(text) : TagAt(text, j, CloseTag)}
    IN  IF opens = {} THEN NoThinkingMatch
        ELSE LET i == SeqMin(opens)
                 j == SeqMin({k \in (i + 2)..Len(text) : TagAt(text, k, CloseTag)})
             IN  [found |-> TRUE, start |-> i, close |-> j,
                  group |-> SubSeq(text, i + 2, j - 1)]

\* re.sub(r'<thinking>.*?</thinking>\s*', '', response, flags=re.DOTALL): every
\* match, found from left to right behind the previous one, is cut out together
\* with the whitespace that follows it
RECURSIVE sub_thinking(_)
sub_thinking(text) ==
    LET m == thinking_match(text) IN
    IF ~m.found THEN text
    ELSE SubSeq(text, 1, m.start - 1)
         \o sub_thinking(text_lstrip(SubSeq(text, m.close + 2, Len(text))))

\* a variant that splits at the last "\n\n"
split_blank_line_last(text) ==
    LET cuts == {i \in 1..(Len(text) - 1) : text[i] = NL /\ text[i + 1] = NL} IN
    IF cuts = {} THEN <<text>>
    ELSE LET i == CHOOSE c \in cuts : \A d \in cuts : d <= c
         IN  <<SubSeq(text, 1, i - 1), SubSeq(text, i + 2, Len(text))>>

\* response.split('\n\n', 1)
split_blank_line(text) ==
    LET cuts == {i \in 1..(Len(text) - 1) : text[i] = NL /\ text[i + 1] = NL} IN
    IF cuts = {} THEN <<text>>
    ELSE LET i == SeqMin(cuts)
         IN  <<SubSeq(text, 1, i - 1), SubSeq(text, i + 2, Len(text))>>

NoThinkingFound == <<Chr("No explicit thinking process found")>>

parse_thinking_response(text) ==
    LET m == thinking_match(text)
        parts == split_blank_line(text)
    IN  IF m.found
        THEN [thinking_process |-> text_strip(m.group),
              final_answer |-> text_strip(sub_thinking(text))]
        ELSE [thinking_process |-> IF Len(parts) > 1 THEN parts[1] ELSE NoThinkingFound,
              final_answer |-> IF Len(parts) > 1 THEN parts[2] ELSE text]

(***************************************************************************)
(* The splitter as a state machine: a response arrives,                    *)
(* parse_thinking_response runs on it once.                                *)
(***************************************************************************)
\* the longest text of freely chosen pieces
MaxText == 4

Pieces == {Chr("<thi"), Chr("</thi"), Chr("nking>"), NL, SP, Chr("A"), Chr("B")}

\* the texts around and inside a tagged region
Leads == {<<>>, <<Chr("A")>>, <<Chr("A"), NL, NL>>, <<SP>>, <<Chr("<thi")>>}
Inners == {<<>>, <<Chr("A")>>, <<SP, Chr("A"), NL>>, <<Chr("A"), NL, NL, Chr("B")>>}
Gaps == {<<>>, <<SP>>, <<NL, NL>>}
Rests == {<<>>, <<Chr("B")>>, <<Chr("B"), SP>>,
          OpenTag \o <<Chr("C")>> \o CloseTag,
          <<Chr("B")>> \o OpenTag \o <<Chr("C")>> \o CloseTag \o <<SP, Chr("D")>>,
          <<Chr("nking>"), Chr("A")>> \o CloseTag \o <<Chr("B")>>}

SplitResponses(most) ==
    UNION {[1..n -> Pieces] : n \in 0..most}
    \cup {lead \o OpenTag \o inner \o CloseTag \o gap \o rest :
            lead \in Leads, inner \in Inners, gap \in Gaps, rest \in Rests}

InitSplitter ==
    /\ fs = DefaultFs
    /\ call = NoCall
    /\ result = NoResult
    /\ invoked = "none"
    /\ response \in SplitResponses(MaxText)
    /\ tool_calls = <<>>
    /\ parse_pc = "idle"
    /\ InitExec
    /\ InitSplit
    /\ InitUsage
    /\ InitChat

ParseThinkingResponse ==
    /\ split_pc = "idle"
    /\ thinking_process' = parse_thinking_response(response).thinking_process
    /\ final_answer' = parse_thinking_response(response).final_answer
    /\ split_pc' = "split"
    /\ UNCHANGED <<toolsVars, extractVars, execVars, usageVars, chatVars>>

NextSplit == ParseThinkingResponse

SpecSplit == InitSplitter /\ [][NextSplit]_vars

(***************************************************************************)
(* The context-budget tracker                                              *)
(***************************************************************************)
\* the content of a message: the pieces of `text` followed by `fill` characters
\* of other text
Content(text, fill) == [text |-> text, fill |-> fill]
Message(role, content) == [role |-> role, content |-> content]

\* len(s) of the strings that occur in message contents
strlen(s) ==
    CASE s \in {"\n", " ", "A", "B", "C", "D", "1", "2", "3", "4", "5", "6", "7", "8",
                "9", "0", "=", "x"} -> 1
      [] s = "hi" -> 2
      [] s \in {"<thi", "grep", "quit", "Quit", "Exit", "help"} -> 4
      [] s \in {"</thi", "Tool ", "TOOL:", "CLEAR"} -> 5
      [] s = "nking>" -> 6
      [] s = "context" -> 7
      [] s \in {" failed: ", "tool_name"} -> 9
      [] s = " succeeded:" -> 11
      [] s = "TOOL RESULTS:" -> 13
      [] s = "Unknown tool: " -> 14
      [] s = "No explicit thinking process found" -> 34

\* the length of a sequence of strings
RECURSIVE strings_len(_)
strings_len(ss) == IF ss = <<>> THEN 0 ELSE strlen(Head(ss)) + strings_len(Tail(ss))

\* the length of the arguments key=raw, key=raw, ... of a call
RECURSIVE args_len(_)
args_len(args) ==
    IF args = <<>> THEN 0
    ELSE strlen(Head(args).key) + strlen("=") + strings_len(Head(args).raw)
         + (IF Len(args) > 1 THEN 2 ELSE 0) + args_len(Tail(args))

\* the length of a piece of text; a call is TOOL:name(key=raw, key=raw, ...)
piece_len(piece) ==
    IF piece.t = "call"
    THEN strlen("TOOL:") + strlen(piece.name) + 1 + args_len(piece.args) + 1
    ELSE strlen(piece.t)

RECURSIVE text_len(_)
text_len(text) == IF text = <<>> THEN 0 ELSE piece_len(Head(text)) + text_len(Tail(text))

\* len(content)
len(content) == text_len(content.text) + content.fill

\* a variant of estimate_tokens that rounds up
estimate_tokens_ceil(text) == (len(text) + 3) \div 4

estimate_tokens(text) == len(text) \div 4

RECURSIVE count_message_tokens(_)
count_message_tokens(msgs) ==
    IF msgs = <<>> THEN 0
    ELSE estimate_tokens(Head(msgs).content) + 10 + count_message_tokens(Tail(msgs))

CONTEXT_LIMITS ==
    [name \in {"llama-3.2-1b", "llama-3.2-3b", "llama-3.2-8b", "llama-3.2"} |->
        CASE name = "llama-3.2-1b" -> 8192
          [] name = "llama-3.2-3b" -> 32768
          [] name = "llama-3.2-8b" -> 131072
          [] name = "llama-3.2" -> 32768]

\* CONTEXT_LIMITS.get(MODEL_NAME, 32768)
MAX_CONTEXT_TOKENS ==
    IF MODEL_NAME \in DOMAIN CONTEXT_LIMITS THEN CONTEXT_LIMITS[MODEL_NAME] ELSE 32768

\* the thresholds 0.8 and 0.9, as the percentages they are compared as
WARNING_THRESHOLD == 80
CRITICAL_THRESHOLD == 90

\* a variant of the classification with the thresholds 0.7 and 0.85
context_status_lower_thresholds(current_tokens, max_tokens) ==
    IF current_tokens * 100 >= 85 * max_tokens THEN "CRITICAL"
    ELSE IF current_tokens * 100 >= 70 * max_tokens THEN "WARNING"
    ELSE "OK"

\* the if/elif chain on usage_percentage = (current_tokens / max_tokens) * 100.
\* The window is a power of two and the thresholds never fall on a whole token,
\* so the floating-point comparisons agree with the exact ones.
context_status(current_tokens, max_tokens) ==
    IF current_tokens * 100 >= CRITICAL_THRESHOLD * max_tokens THEN "CRITICAL"
    ELSE IF current_tokens * 100 >= WARNING_THRESHOLD * max_tokens THEN "WARNING"
    ELSE "OK"

get_context_usage(msgs) ==
    [current_tokens |-> count_message_tokens(msgs),
     max_tokens |-> MAX_CONTEXT_TOKENS,
     status |-> context_status(count_message_tokens(msgs), MAX_CONTEXT_TOKENS)]

(***************************************************************************)
(* The tracker as a state machine: a model is configured, a history is     *)
(* given, get_context_usage runs on it once.                               *)
(***************************************************************************)
\* the most messages in a history given to get_context_usage
MaxHistory == 2

ModelNames == DOMAIN CONTEXT_LIMITS \cup {"gpt-x"}
Windows == {8192, 32768, 131072}

\* the content lengths at which a history of up to MaxHistory messages, all but
\* one of them short, lies just below and just above p percent of a window
LensAround(window, p) ==
    LET tokens == (window * p) \div 100
    IN  {4 * (tokens - 10 * k) + d : k \in 1..MaxHistory, d \in (-1)..4}

\* content lengths: short ones, the histories of 1000, 6000 and 7000 tokens, and
\* the lengths around both thresholds of every window
ShortLens == (0..4) \cup {7}
ContentLens ==
    ShortLens \cup {3960, 23960, 27960}
    \cup UNION {LensAround(w, WARNING_THRESHOLD) \cup LensAround(w, CRITICAL_THRESHOLD) :
                    w \in Windows}

RoleAt(i) == IF i = 1 THEN "system" ELSE IF i % 2 = 0 THEN "user" ELSE "assistant"

\* a first message of any length followed by short messages
Histories(most) ==
    {<<>>}
    \cup UNION {{[i \in 1..n |-> Message(RoleAt(i), Content(<<>>, IF i = 1 THEN a ELSE b[i]))] :
                    a \in ContentLens, b \in [1..n -> ShortLens]} : n \in 1..most}
    \cup {<<Message("system", Content(<<Chr("hi"), NL>> \o OpenTag, 0))>>}

InitTracker ==
    /\ fs = DefaultFs
    /\ call = NoCall
    /\ result = NoResult
    /\ invoked = "none"
    /\ response = <<>>
    /\ tool_calls = <<>>
    /\ parse_pc = "idle"
    /\ InitExec
    /\ InitSplit
    /\ MODEL_NAME \in ModelNames
    /\ messages \in Histories(MaxHistory)
    /\ usage = NoUsage
    /\ InitChat

GetContextUsage ==
    /\ usage = NoUsage
    /\ usage' = get_context_usage(messages)
    /\ UNCHANGED <<toolsVars, extractVars, execVars, splitVars, MODEL_NAME, messages, chatVars>>

NextUsage == GetContextUsage

SpecUsage == InitTracker /\ [][NextUsage]_vars

(***************************************************************************)
(* run_thinking_chat                                                       *)
(*                                                                         *)
(* A line typed by the operator and a response of the model are texts of   *)
(* pieces; a response may hold calls TOOL:name(...).  The responses of the  *)
(* chat model call no tool that succeeds: the length of a file listing is  *)
(* not modelled.                                                           *)
(***************************************************************************)
\* the stripped lengths context.md may have when create_system_prompt reads it
\* (0: the file is absent, empty or unreadable)
ContextFiles == {0, 8}

\* load_context_from_file: "" or "\n\nADDITIONAL CONTEXT:\n" and the content
load_context_from_file(n) == IF n = 0 THEN 0 ELSE 22 + n

\* base_prompt is a literal of 1970 characters
create_system_prompt(n) == Message("system", Content(<<>>, 1970 + load_context_from_file(n)))

SystemPrompts == {create_system_prompt(n) : n \in ContextFiles}

\* str.strip() and str.lower() of a line; the fill characters are no whitespace
\* and have no case
content_strip(c) ==
    IF c.fill = 0 THEN Content(text_strip(c.text), 0) ELSE Content(text_lstrip(c.text), c.fill)
content_lower(c) == Content([i \in DOMAIN c.text |-> Chr(lower(c.text[i].t))], c.fill)

\* s in [word, ...] for a line s
is_word(c, words) == c.fill = 0 /\ Len(c.text) = 1 /\ c.text[1].t \in words

\* a variant that removes nothing
pop_nothing(list) == list

\* a variant that removes the first entry
pop_first(list) == SubSeq(list, 2, Len(list))

\* list.pop()
pop(list) == SubSeq(list, 1, Len(list) - 1)

\* a lone surrogate code point, which print cannot encode
Surrogate == Chr("surrogate")

\* whether print(text) returns
printable(text) == \A i \in 1..Len(text) : text[i] # Surrogate

\* the whole of execute_tools: the results, or the exception of a call
RECURSIVE execute_tools_from(_, _, _)
execute_tools_from(fsys, calls, results) ==
    IF calls = <<>> THEN [raised |-> FALSE, results |-> results]
    ELSE LET r == dispatch(fsys, Head(calls)) IN
         IF r.status = "raised" THEN [raised |-> TRUE, results |-> results]
         ELSE execute_tools_from(fsys, Tail(calls), Append(results, r))
execute_tools(fsys, calls) == execute_tools_from(fsys, calls, <<>>)

\* str(i) for the numbers of the tools of one response
decimal(i) ==
    CASE i = 1 -> "1" [] i = 2 -> "2" [] i = 3 -> "3" [] i = 4 -> "4" [] i = 5 -> "5"
      [] i = 6 -> "6" [] i = 7 -> "7" [] i = 8 -> "8" [] i = 9 -> "9"

\* the text of the error of a failed result
error_text(r) == [i \in 1..Len(r.error.text) |-> Chr(r.error.text[i])]

\* the loop that builds tool_context
RECURSIVE tool_context_from(_, _)
tool_context_from(results, i) ==
    IF i > Len(results) THEN <<>>
    ELSE (IF results[i].success
          THEN <<Chr("Tool "), Chr(decimal(i)), Chr(" succeeded:"), NL,
                 [t |-> "content", name |-> "", args |-> results[i].content], NL, NL>>
          ELSE <<Chr("Tool "), Chr(decimal(i)), Chr(" failed: ")>> \o error_text(results[i])
               \o <<NL, NL>>)
         \o tool_context_from(results, i + 1)
tool_context(results) == <<NL, NL, Chr("TOOL RESULTS:"), NL>> \o tool_context_from(results, 1)

(***************************************************************************)
(* The chat loop as a state machine: the operator types lines and answers  *)
(* the CRITICAL prompt, the model answers or the transport fails.          *)
(***************************************************************************)
\* the most entries of the history: no further message is typed at this length
MaxMessages == 5

InputLines ==
    {Content(<<Chr(w)>>, 0) : w \in {"quit", "context", "CLEAR", "help"}}
    \cup {Content(<<>>, 0), Content(<<SP, NL>>, 0), Content(<<SP, Chr("Exit"), SP>>, 0),
          Content(<<Chr("quit"), SP, Chr("hi")>>, 0),
          Content(<<SP, Chr("hi")>>, 59000), Content(<<Chr("hi")>>, 120000)}

Answers == {"y", "Y", "clear", "CLEAR", "n", "", " y", "yes"}

UnknownCall == Call("grep", <<Arg("A", <<"1">>)>>)
ClashCall == Call("grep", <<Arg("tool_name", <<"x">>)>>)

ChatResponses ==
    {<<Chr("A")>>,
     OpenTag \o <<Chr("A")>> \o CloseTag \o <<NL, Chr("B")>>,
     OpenTag \o <<Chr("A")>> \o CloseTag \o <<Chr("B"), SP, UnknownCall>>,
     <<Chr("B"), NL, ClashCall>>,
     <<UnknownCall, SP, ClashCall>>,
     <<Chr("A"), Surrogate>>}

InitChatLoop ==
    /\ fs = DefaultFs
    /\ call = NoCall
    /\ result = NoResult
    /\ invoked = "none"
    /\ response = <<>>
    /\ tool_calls = <<>>
    /\ parse_pc = "idle"
    /\ InitExec
    /\ InitSplit
    /\ MODEL_NAME = "llama-3.2-3b"
    /\ messages \in {<<sys>> : sys \in SystemPrompts}
    /\ usage = NoUsage
    /\ chat_pc = "input"
    /\ user_input = NoInput
    /\ temp_messages = <<>>
    /\ answer = ""
    /\ choice = ""
    /\ outcome = "none"

\* the locals of the pass before are dead when input() returns: each is assigned
\* before it is read again
NewPass ==
    /\ response' = <<>>
    /\ tool_calls' = <<>>
    /\ parse_pc' = "idle"
    /\ tool_results' = <<>>
    /\ exec_pc' = "idle"
    /\ thinking_process' = <<>>
    /\ final_answer' = <<>>
    /\ split_pc' = "idle"
    /\ answer' = ""
    /\ choice' = ""
    /\ outcome' = "none"

\* one pass from input() to the next input(), to the CRITICAL prompt or to the
\* request
ReadInput ==
    \E line \in InputLines, sys \in SystemPrompts :
        LET stripped == content_strip(line)
            lowered == content_lower(stripped)
            temp == Append(messages, Message("user", stripped))
        IN  /\ chat_pc = "input"
            /\ user_input' = stripped
            /\ NewPass
            /\ IF is_word(lowered, {"quit", "exit", "bye"})
               THEN chat_pc' = "quit" /\ temp_messages' = <<>> /\ UNCHANGED messages
               ELSE IF is_word(lowered, {"context"})
               THEN chat_pc' = "input" /\ temp_messages' = <<>> /\ UNCHANGED messages
               ELSE IF is_word(lowered, {"clear"})
               THEN chat_pc' = "input" /\ temp_messages' = <<>> /\ messages' = <<sys>>
               ELSE IF is_word(lowered, {"help"}) \/ len(stripped) = 0
               THEN chat_pc' = "input" /\ temp_messages' = <<>> /\ UNCHANGED messages
               ELSE /\ Len(messages) < MaxMessages
                    /\ temp_messages' = temp
                    /\ IF get_context_usage(temp).status = "CRITICAL"
                       THEN chat_pc' = "prompt" /\ UNCHANGED messages
                       ELSE chat_pc' = "calling" /\ messages' = temp
            /\ UNCHANGED <<toolsVars, MODEL_NAME, usage>>

\* the answer to "Continue anyway? (y/n) or 'clear' to reset: "
AnswerPrompt ==
    \E typed \in Answers, sys \in SystemPrompts :
        /\ chat_pc = "prompt"
        /\ answer' = typed
        /\ choice' = lower(typed)
        /\ IF lower(typed) = "clear"
           THEN /\ messages' = <<sys, Message("user", user_input)>>
                /\ temp_messages' = <<sys, Message("user", user_input)>>
                /\ chat_pc' = "calling"
           ELSE IF lower(typed) # "y"
           THEN chat_pc' = "input" /\ UNCHANGED <<messages, temp_messages>>
           ELSE /\ messages' = Append(messages, Message("user", user_input))
                /\ chat_pc' = "calling"
                /\ UNCHANGED temp_messages
        /\ UNCHANGED <<toolsVars, extractVars, execVars, splitVars, MODEL_NAME, usage,
                       user_input, outcome>>

\* call_llm_thinking returns the content of the response
CallLlm ==
    \E r \in ChatResponses :
        /\ chat_pc = "calling"
        /\ response' = r
        /\ chat_pc' = "responded"
        /\ UNCHANGED <<toolsVars, tool_calls, parse_pc, execVars, splitVars, usageVars,
                       user_input, temp_messages, answer, choice, outcome>>

\* call_llm_thinking raises (no connection, an error status, a body without
\* choices): the except clause removes the user message
CallLlmRaises ==
    /\ chat_pc = "calling"
    /\ messages' = pop(messages)
    /\ outcome' = "failed"
    /\ chat_pc' = "input"
    /\ UNCHANGED <<toolsVars, extractVars, execVars, splitVars, MODEL_NAME, usage,
                   user_input, temp_messages, answer, choice>>

\* the rest of the try block and, when it raises, the except clause
HandleResponse ==
    \E split \in {parse_thinking_response(response)}, calls \in {parse_tool_calls(response)} :
      \E displayed \in {printable(split.thinking_process) /\ printable(split.final_answer)} :
        \E executed \in {IF displayed /\ calls # <<>> THEN execute_tools(fs, calls)
                         ELSE [raised |-> FALSE, results |-> <<>>]} :
          \E final_answer_with_tools \in
                {IF calls # <<>> THEN split.final_answer \o tool_context(executed.results)
                 ELSE split.final_answer} :
            /\ chat_pc = "responded"
            /\ thinking_process' = split.thinking_process
            /\ final_answer' = split.final_answer
            /\ split_pc' = "split"
            /\ IF displayed THEN tool_calls' = calls /\ parse_pc' = "parsed"
               ELSE UNCHANGED <<tool_calls, parse_pc>>
            /\ IF displayed /\ calls # <<>>
               THEN /\ tool_results' = executed.results
                    /\ exec_pc' = IF executed.raised THEN "raised" ELSE "returned"
               ELSE UNCHANGED execVars
            /\ IF ~displayed \/ executed.raised
               THEN messages' = pop(messages) /\ outcome' = "failed"
               ELSE /\ messages' = Append(messages,
                                          Message("assistant",
                                                  Content(final_answer_with_tools, 0)))
                    /\ outcome' = "ok"
            /\ chat_pc' = "input"
            /\ UNCHANGED <<toolsVars, response, MODEL_NAME, usage, user_input,
                           temp_messages, answer, choice>>

NextChat == ReadInput \/ AnswerPrompt \/ CallLlm \/ CallLlmRaises \/ HandleResponse

SpecChat == InitChatLoop /\ [][NextChat]_vars

(***************************************************************************)
(* Reading the state of a finished call                                    *)
(***************************************************************************)
\* read_file ran (called directly, or delegated to by execute_tool)
RanReadFile == invoked = "read_file"
CallArg(k) == call.kwargs[k]
ArgStart == CallArg("start_line_one_indexed")
ArgEnd == CallArg("end_line_one_indexed_inclusive")

\* the node the target_file of the call resolves to
TargetNode ==
    Lookup(fs, IF isabs(CallArg("target_file")) THEN CallArg("target_file")
               ELSE join(workspace_root, CallArg("target_file")))
\* the target exists, opens and decodes
Readable(node) == node.kind = "file" /\ node.access = "ok" /\ node.utf8
TargetLines == readlines(TargetNode.text)
TargetTotal == TargetNode.text.total

\* read_file ran in ranged mode on an existing readable file
RangedRead == RanReadFile /\ ~CallArg("should_read_entire_file") /\ Readable(TargetNode)
\* read_file ran in whole-file mode on an existing readable file
EntireRead == RanReadFile /\ CallArg("should_read_entire_file") /\ Readable(TargetNode)

Failed(res) == res.status = "returned" /\ ~res.success
Succeeded(res) == res.status = "returned" /\ res.success
RangeTooLarge(res) ==
    /\ Failed(res)
    /\ res.content = <<>>
    /\ res.error = Str(<<"Cannot read more than 250 lines at once">>)

\* the lines shown between the fences of a successful read
Body(res) == res.content[2][2]
Header(res) == res.content[1]
TruncationNote(res, start, end, total) ==
    Header(res) = <<"Requested to read lines ", start, "-", end,
                    ", but returning lines ", start, "-", total, " (end of file).">>
\* the last piece of the content is a summary
HasSummary(res) == res.content[Len(res.content)][1] = "Summary: "
SummaryOf(res) == res.content[Len(res.content)][2]

(***************************************************************************)
(* C3: ranged reads that are too large                                     *)
(***************************************************************************)
\* C3 as claimed: a ranged read of an existing readable file with
\* 1 <= start <= end fails with RangeTooLarge whenever end - start > 250.
C3_AsClaimed ==
    (RangedRead /\ 1 <= ArgStart /\ ArgStart <= ArgEnd /\ ArgEnd - ArgStart > 250)
        => RangeTooLarge(result)

\* C3 amended: a ranged read of an existing readable file with 1 <= start <= end
\* fails with RangeTooLarge (success = false, empty content) whenever the number
\* of lines left after clamping end to the file length,
\* min(end, total_lines) - start + 1, exceeds 250.
C3_RangeTooLarge ==
    (RangedRead /\ 1 <= ArgStart /\ ArgStart <= ArgEnd
        /\ Min(ArgEnd, TargetTotal) - ArgStart + 1 > 250)
        => RangeTooLarge(result)

C3_Witness ==
    /\ RangedRead /\ 1 <= ArgStart /\ ArgStart <= ArgEnd
    /\ Min(ArgEnd, TargetTotal) - ArgStart + 1 = 251
    /\ RangeTooLarge(result)

(***************************************************************************)
(* C4: a ranged read whose end lies beyond the end of the file             *)
(***************************************************************************)
ClampedToEof ==
    /\ Succeeded(result)
    /\ Body(result) = rstrip(SubSeq(TargetLines, ArgStart, TargetTotal))
    /\ TruncationNote(result, ArgStart, ArgEnd, TargetTotal)

\* C4 as claimed: every ranged read with 1 <= start <= total_lines < end
\* succeeds with lines start..total_lines and the truncation note.
C4_AsClaimed ==
    (RangedRead /\ 1 <= ArgStart /\ ArgStart <= TargetTotal /\ TargetTotal < ArgEnd)
        => ClampedToEof

\* C4 amended: every ranged read with 1 <= start <= total_lines < end and
\* total_lines - start + 1 <= 250 succeeds with lines start..total_lines of the
\* file (trailing whitespace trimmed) and the note that the requested range was
\* truncated to end of file; so does start = 5, end = 2000 on a 50-line file.
C4_ClampedToEof ==
    (RangedRead /\ 1 <= ArgStart /\ ArgStart <= TargetTotal /\ TargetTotal < ArgEnd
        /\ TargetTotal - ArgStart + 1 <= 250)
        => ClampedToEof

C4_Witness ==
    /\ RangedRead /\ ArgStart = 5 /\ ArgEnd = 2000 /\ TargetTotal = 50
    /\ Succeeded(result)
    /\ Body(result) = [i \in 1..46 |-> i + 4]
    /\ TruncationNote(result, 5, 2000, 50)

(***************************************************************************)
(* C5: the summary of a ranged read                                        *)
(***************************************************************************)
\* C5: every successful ranged read ends with a summary that names the lines
\* omitted before the slice when start > 1, the lines omitted after it when
\* end < total_lines, and that is the note "Complete file section shown" when
\* no line was omitted on either side.
C5_AsClaimed ==
    (RangedRead /\ Succeeded(result)) =>
        /\ HasSummary(result)
        /\ ArgStart > 1 =>
             \E i \in 1..Len(SummaryOf(result)[2]) :
                SummaryOf(result)[2][i] = <<"Lines ", 1, "-", ArgStart - 1, " not shown">>
        /\ ArgEnd < TargetTotal =>
             \E i \in 1..Len(SummaryOf(result)[2]) :
                SummaryOf(result)[2][i]
                    = <<"Lines ", ArgEnd + 1, "-", TargetTotal, " not shown">>
        /\ (ArgStart = 1 /\ ArgEnd >= TargetTotal) =>
             SummaryOf(result) = <<"Complete file section shown">>

(***************************************************************************)
(* C6: whole-file mode                                                     *)
(***************************************************************************)
\* C6: with should_read_entire_file true on an existing readable file, read_file
\* succeeds with the whole file content (trailing whitespace trimmed) labelled
\* lines 1-total, whatever start and end are: no InvalidRange, no RangeTooLarge.
C6_EntireFile ==
    EntireRead =>
        /\ Succeeded(result)
        /\ Len(result.content) = 2
        /\ Header(result) = <<"Contents of ", CallArg("target_file"), ", lines ", 1, "-",
                              TargetTotal, " (entire file):">>
        /\ Body(result) = rstrip(TargetLines)
        /\ result.error = None

C6_Witness ==
    /\ EntireRead /\ call.op = "read_file"
    /\ TargetTotal > 250
    /\ ArgEnd < ArgStart /\ ArgStart < 1
    /\ ArgEnd - ArgStart < 250
    /\ Succeeded(result)
    /\ Len(Body(result)) > 250

(***************************************************************************)
(* C7: the ToolResult invariant                                            *)
(***************************************************************************)
\* C7: every ToolResult that read_file, list_dir or execute_tool returns has a
\* non-empty error if and only if success is false, and empty content whenever
\* success is false.
C7_ToolResultInvariant ==
    result.status = "returned" =>
        /\ (~IsEmpty(result.error)) <=> ~result.success
        /\ ~result.success => result.content = <<>>

C7_Witness ==
    /\ call.op = "list_dir"
    /\ Failed(result)
    /\ ~IsEmpty(result.error)
    /\ result.content = <<>>

(***************************************************************************)
(* C8: missing parameters                                                  *)
(***************************************************************************)
Required(tool_name) ==
    IF tool_name = "read_file" THEN Range(read_file_required)
    ELSE IF tool_name = "list_dir" THEN Range(list_dir_required)
    ELSE {}
AbsentKeys == Required(call.tool_name) \ DOMAIN call.kwargs

\* C8: execute_tool for read_file or list_dir with a required key absent returns
\* a failed ToolResult whose error names exactly the absent required keys, each
\* once, and invokes no tool function; read_file without explanation names
\* exactly explanation.
C8_MissingParameters ==
    (call.op = "execute_tool" /\ AbsentKeys # {}) =>
        /\ Failed(result)
        /\ result.content = <<>>
        /\ result.error.text[1] = "Missing required parameters: "
        /\ Range(result.error.text[2]) = AbsentKeys
        /\ Len(result.error.text[2]) = Cardinality(AbsentKeys)
        /\ invoked = "none"

C8_Witness ==
    /\ call.op = "execute_tool" /\ call.tool_name = "read_file"
    /\ AbsentKeys = {"explanation"}
    /\ result.error = Str(<<"Missing required parameters: ", <<"explanation">> >>)
    /\ invoked = "none"

(***************************************************************************)
(* C9: execute_tool never raises                                           *)
(***************************************************************************)
\* C9: for every tool name and every parameter mapping, also one with keys beyond
\* the tool's required set, execute_tool returns a ToolResult (UnknownTool for a
\* name outside the registered set) and never raises a fault to its caller.
C9_AsClaimed ==
    call.op = "execute_tool" =>
        /\ result.status = "returned"
        /\ call.tool_name \notin {"read_file", "list_dir"} =>
             (Failed(result) /\ result.error = Str(<<"Unknown tool: ", call.tool_name>>))

(***************************************************************************)
(* Reading the text of a response and the calls extracted from it          *)
(***************************************************************************)
Extracted == parse_pc = "parsed"
\* the calls written in the response, in order of appearance
CallsIn(resp) == find_tool_pattern(resp)
Written == CallsIn(response)
HasArg(c, key) == \E i \in 1..Len(c.args) : c.args[i].key = key
ArgRaw(c, key) == c.args[CHOOSE i \in 1..Len(c.args) : c.args[i].key = key].raw

\* a string value wrapped in one kind of quote, which its text does not contain
WellFormedString(raw) ==
    /\ Len(raw) >= 3
    /\ raw[1] \in Quotes
    /\ raw[Len(raw)] = raw[1]
    /\ \A i \in 2..(Len(raw) - 1) : raw[i] # raw[1]
WellFormedBoolean(raw) == Len(raw) = 1 /\ lower(raw[1]) \in {"true", "false"}
WellFormedInteger(raw) == raw # <<>> /\ \A i \in 1..Len(raw) : raw[i] \in Digits
\* the text between the quotes
Literal(raw) == SubSeq(raw, 2, Len(raw) - 1)

\* a read_file call that supplies the five parameters, each well formed
WellFormedReadFile(c) ==
    /\ c.name = "read_file"
    /\ Len(c.args) = 5
    /\ \A k \in Range(read_file_required) : HasArg(c, k)
    /\ WellFormedString(ArgRaw(c, "target_file"))
    /\ WellFormedBoolean(ArgRaw(c, "should_read_entire_file"))
    /\ WellFormedInteger(ArgRaw(c, "start_line_one_indexed"))
    /\ WellFormedInteger(ArgRaw(c, "end_line_one_indexed_inclusive"))
    /\ WellFormedString(ArgRaw(c, "explanation"))

\* the ToolCall carrying the values as they are written in the call
LiteralToolCall(c) ==
    [name |-> "read_file",
     params |->
        [target_file |-> Literal(ArgRaw(c, "target_file")),
         should_read_entire_file |->
             lower(ArgRaw(c, "should_read_entire_file")[1]) = "true",
         start_line_one_indexed |-> int(ArgRaw(c, "start_line_one_indexed")),
         end_line_one_indexed_inclusive |->
             int(ArgRaw(c, "end_line_one_indexed_inclusive")),
         explanation |-> Literal(ArgRaw(c, "explanation"))]]

\* the identity of a ToolCall
Identity(tc) ==
    CASE tc.name = "read_file" ->
            <<tc.params.target_file, tc.params.start_line_one_indexed,
              tc.params.end_line_one_indexed_inclusive>>
      [] tc.name = "list_dir" -> <<tc.params.relative_workspace_path>>
      [] OTHER -> <<tc.params>>
SameIdentity(a, b) == a.name = b.name /\ Identity(a) = Identity(b)
SameToolCall(a, b) == a.name = b.name /\ a.params = b.params

\* the matches the loop met, and those that reached the de-duplication step
Matches == all_matches(response)
Reached(i) == parse_match(Matches[i]).kept
Candidate(i) == ToolCallOf(parse_match(Matches[i]))

(***************************************************************************)
(* C1: a well-formed read_file call is extracted with its literal values   *)
(***************************************************************************)
\* C1: a response that holds one well-formed TOOL:read_file(...) call supplying
\* target_file, should_read_entire_file, start_line_one_indexed,
\* end_line_one_indexed_inclusive and explanation yields exactly one ToolCall,
\* whose five values are the literal values written in the call, whether the
\* call stands in plain text or inside a code fence.
C1_AsClaimed ==
    (Extracted /\ Len(Written) = 1 /\ WellFormedReadFile(Written[1])) =>
        /\ Len(tool_calls) = 1
        /\ SameToolCall(tool_calls[1], LiteralToolCall(Written[1]))

(***************************************************************************)
(* C2: de-duplication by identity                                          *)
(***************************************************************************)
\* C2: the returned sequence holds no two ToolCalls of one identity (name,
\* target file, start, end for read_file; name, path for list_dir; name and
\* parameter set otherwise); every returned ToolCall is the first call of its
\* identity that the extractor met, and every identity met is returned once.
C2_NoDuplicateIdentity ==
    Extracted =>
        /\ \A i, j \in 1..Len(tool_calls) :
              SameIdentity(tool_calls[i], tool_calls[j]) => i = j
        /\ \A k \in 1..Len(tool_calls) : \E i \in 1..Len(Matches) :
              /\ Reached(i)
              /\ SameToolCall(Candidate(i), tool_calls[k])
              /\ \A j \in 1..(i - 1) : Reached(j) => ~SameIdentity(Candidate(j), Candidate(i))
        /\ \A i \in 1..Len(Matches) :
              Reached(i) => \E k \in 1..Len(tool_calls) :
                                SameIdentity(tool_calls[k], Candidate(i))

\* two read_file calls with one target file, start and end that differ in
\* should_read_entire_file: only the first is returned
C2_Witness ==
    /\ Extracted
    /\ Len(Matches) = 2
    /\ Matches[1].name = "read_file" /\ Matches[2].name = "read_file"
    /\ Reached(1) /\ Reached(2)
    /\ SameIdentity(Candidate(1), Candidate(2))
    /\ Candidate(1).params.should_read_entire_file
          # Candidate(2).params.should_read_entire_file
    /\ Len(tool_calls) = 1
    /\ SameToolCall(tool_calls[1], Candidate(1))

(***************************************************************************)
(* C10: a read_file call without target_file is dropped                    *)
(***************************************************************************)
\* the argument list gives no value for target_file: the key is absent, or
\* nothing stands between its equals sign and the next comma
NoTargetValue(c) ==
    /\ c.t = "call" /\ c.name = "read_file"
    /\ \A i \in 1..Len(c.args) : c.args[i].key = "target_file" => strip(c.args[i].raw) = <<>>
HasTargetValue(c) == ~NoTargetValue(c)
\* the response with the calls that give no target_file value deleted
WithTargetValue(resp) == SelectSeq(resp, HasTargetValue)

WasSplit == split_pc = "split"
\* the places where a tagged region can start: an opening tag with a closing
\* tag somewhere behind it
RegionStarts(text) ==
    {i \in 1..Len(text) :
        TagAt(text, i, OpenTag) /\ \E j \in (i + 2)..Len(text) : TagAt(text, j, CloseTag)}
HasRegion(text) == RegionStarts(text) # {}
\* the first region: its opening tag and the nearest closing tag behind it
RegionOpen(text) == CHOOSE i \in RegionStarts(text) : \A k \in RegionStarts(text) : i <= k
RegionClose(text) ==
    CHOOSE j \in (RegionOpen(text) + 2)..Len(text) :
        /\ TagAt(text, j, CloseTag)
        /\ \A k \in (RegionOpen(text) + 2)..(j - 1) : ~TagAt(text, k, CloseTag)
Inner(text) == SubSeq(text, RegionOpen(text) + 2, RegionClose(text) - 1)
Before(text) == SubSeq(text, 1, RegionOpen(text) - 1)
After(text) == SubSeq(text, RegionClose(text) + 2, Len(text))
\* the text with every tagged region, taken from left to right, and the
\* whitespace directly behind each region removed
RECURSIVE RegionsRemoved(_)
RegionsRemoved(text) ==
    IF HasRegion(text)
    THEN Before(text) \o RegionsRemoved(text_lstrip(After(text)))
    ELSE text
\* the places of a blank-line boundary: two newlines in a row
Boundaries(text) == {i \in 1..(Len(text) - 1) : text[i] = NL /\ text[i + 1] = NL}

C12_FallbackSplit ==
    (WasSplit /\ ~HasRegion(response)) =>
        IF Boundaries(response) # {}
        THEN \E i \in Boundaries(response) :
                /\ \A k \in Boundaries(response) : i <= k
                /\ thinking_process = SubSeq(response, 1, i - 1)
                /\ final_answer = SubSeq(response, i + 2, Len(response))
        ELSE /\ thinking_process = NoThinkingFound
             /\ final_answer = response

\* a response with more than one boundary: the split is at the first
C12_Witness ==
    /\ WasSplit /\ ~HasRegion(response)
    /\ Cardinality(Boundaries(response)) >= 2
    /\ thinking_process = <<Chr("A")>>
    /\ final_answer = <<NL>>

(***************************************************************************)
(* C13: the token estimate and the classification                          *)
(***************************************************************************)
Reported == usage # NoUsage
\* the sum over the messages of (length of content integer-divided by 4, plus 10)
RECURSIVE SumTo(_)
SumTo(n) == IF n = 0 THEN 0 ELSE (len(messages[n].content) \div 4) + 10 + SumTo(n - 1)

\* C13: current_tokens is the sum over the messages of (length of content
\* integer-divided by 4, plus 10); max_tokens is the table entry of the configured
\* model, or 32768 for a name that is not in the table; status is CRITICAL exactly
\* when current_tokens is at least 90% of max_tokens, WARNING exactly when it is at
\* least 80% and below 90%, OK exactly when it is below 80%.
C13_Usage ==
    Reported =>
        /\ usage.current_tokens = SumTo(Len(messages))
        /\ usage.max_tokens = (CASE MODEL_NAME = "llama-3.2-1b" -> 8192
                                 [] MODEL_NAME = "llama-3.2-3b" -> 32768
                                 [] MODEL_NAME = "llama-3.2-8b" -> 131072
                                 [] OTHER -> 32768)
        /\ usage.status = "CRITICAL" <=> usage.current_tokens * 10 >= usage.max_tokens * 9
        /\ usage.status = "WARNING" <=>
              (usage.current_tokens * 10 >= usage.max_tokens * 8
               /\ usage.current_tokens * 10 < usage.max_tokens * 9)
        /\ usage.status = "OK" <=> usage.current_tokens * 10 < usage.max_tokens * 8

\* a history of two messages under an unrecognized model name, one token above the
\* CRITICAL threshold of the default window, the first length no multiple of 4
C13_Witness ==
    /\ Reported
    /\ MODEL_NAME = "gpt-x"
    /\ Len(messages) = 2
    /\ len(messages[1].content) % 4 = 3
    /\ usage.current_tokens = 29492
    /\ usage.max_tokens = 32768
    /\ usage.status = "CRITICAL"

(***************************************************************************)
(* C14: the window of 8192 tokens                                          *)
(***************************************************************************)
\* C14 as claimed: with a window of 8192 tokens a history estimated at 7000
\* tokens is CRITICAL, one at 6000 tokens WARNING, one at 1000 tokens OK.
C14_AsClaimed ==
    (Reported /\ usage.max_tokens = 8192) =>
        /\ usage.current_tokens = 7000 => usage.status = "CRITICAL"
        /\ usage.current_tokens = 6000 => usage.status = "WARNING"
        /\ usage.current_tokens = 1000 => usage.status = "OK"

\* C14 amended: with a window of 8192 tokens a history estimated at 7000 tokens
\* is WARNING, one at 6000 tokens OK and one at 1000 tokens OK; CRITICAL starts at
\* 7373 tokens and WARNING at 6554 tokens.
C14_Window8192 ==
    (Reported /\ usage.max_tokens = 8192) =>
        /\ usage.current_tokens = 7000 => usage.status = "WARNING"
        /\ usage.current_tokens = 6000 => usage.status = "OK"
        /\ usage.current_tokens = 1000 => usage.status = "OK"
        /\ usage.current_tokens >= 7373 => usage.status = "CRITICAL"
        /\ usage.current_tokens \in 6554..7372 => usage.status = "WARNING"
        /\ usage.current_tokens <= 6553 => usage.status = "OK"

C14_Witness ==
    /\ Reported
    /\ MODEL_NAME = "llama-3.2-1b"
    /\ usage.max_tokens = 8192
    /\ usage.current_tokens = 7000
    /\ usage.status = "WARNING"

(***************************************************************************)
(* C15: the batch                                                          *)
(***************************************************************************)
\* execute_tools has ended, by a return or by an exception
Ended == exec_pc \in {"returned", "raised"}
UnknownTool(r) ==
    /\ r.status = "returned" /\ ~r.success /\ ~r.error.isNone
    /\ r.error.text # <<>> /\ r.error.text[1] = "Unknown tool: "
\* C15 as claimed: executing a batch of extracted calls returns exactly one
\* ToolResult per call, the i-th result belonging to the i-th call, whatever
\* the calls before it did.
C15_AsClaimed ==
    (parse_pc = "parsed" /\ Ended) =>
        /\ exec_pc = "returned"
        /\ Len(tool_results) = Len(tool_calls)
        /\ \A i \in 1..Len(tool_calls) :
              tool_results[i] = execute_tool(fs, tool_calls[i].name, tool_calls[i].params).res

(***************************************************************************)
(* C20: the extracted calls at the dispatcher                              *)
(***************************************************************************)
MissingParameters(r) ==
    /\ r.status = "returned" /\ ~r.success /\ ~r.error.isNone
    /\ r.error.text # <<>> /\ r.error.text[1] = "Missing required parameters: "

\* C20 as claimed: every extracted read_file call carries exactly the five keys
\* of read_file and every extracted list_dir call exactly the two keys of
\* list_dir, so that dispatching one never yields MissingParameters and never
\* raises; dispatching an extracted call of any other name yields UnknownTool.
C20_AsClaimed ==
    Extracted =>
        \A i \in 1..Len(tool_calls) :
            LET c == tool_calls[i]
                r == dispatch(fs, c)
            IN  /\ c.name = "read_file" =>
                      /\ DOMAIN c.params = Range(read_file_required)
                      /\ ~MissingParameters(r) /\ r.status # "raised"
                /\ c.name = "list_dir" =>
                      /\ DOMAIN c.params = Range(list_dir_required)
                      /\ ~MissingParameters(r) /\ r.status # "raised"
                /\ c.name \notin {"read_file", "list_dir"} => UnknownTool(r)

(***************************************************************************)
(* C17: the cap on a ranged read                                           *)
(***************************************************************************)
\* C17: every successful ranged read_file call returns at most 250 lines of the
\* file, for every file length and every start and end.
C17_AtMost250Lines ==
    (RanReadFile /\ ~CallArg("should_read_entire_file") /\ Succeeded(result))
        => /\ Len(Body(result)) <= 250
           /\ \A i \in 1..Len(Body(result)) :
                 /\ ArgStart + i - 1 \in 1..TargetTotal
                 /\ Body(result)[i] = TargetLines[ArgStart + i - 1]

\* a successful ranged read of exactly 250 lines out of a longer file
C17_Witness ==
    /\ RangedRead /\ Succeeded(result)
    /\ TargetTotal > 250
    /\ Len(Body(result)) = 250

(***************************************************************************)
(* C16: a failed exchange                                                  *)
(***************************************************************************)
\* the exchange is under way: the user message is appended, the assistant
\* message is not
InExchange == chat_pc \in {"calling", "responded"}
UserMessage == Message("user", user_input)

\* C16: when an exchange fails after the user message was appended and before
\* the assistant message is appended, the history afterwards is the history as
\* it was before that user message was appended: exactly the user message is
\* removed, no other entry is changed.
C16_FailedExchange ==
    [][(InExchange /\ outcome' = "failed") =>
            /\ messages = Append(messages', UserMessage)
            /\ Append(messages', UserMessage) = temp_messages
            /\ chat_pc' = "input"]_vars

\* the second exchange failed in the execution of a tool, after the first tool
\* of the response had given its result
C16_Witness ==
    /\ chat_pc = "input" /\ outcome = "failed"
    /\ exec_pc = "raised" /\ Len(tool_results) = 1
    /\ Len(messages) = 3
    /\ temp_messages = Append(messages, UserMessage)

(***************************************************************************)
(* C18: the CRITICAL prompt                                                *)
(***************************************************************************)
\* a message (no command, not empty) was read in this step
MessageRead == chat_pc = "input" /\ temp_messages' # <<>>
Critical(history) == get_context_usage(history).status = "CRITICAL"
Appended == messages' = Append(messages, UserMessage') /\ chat_pc' = "calling"
ResetAndAppended ==
    /\ \E sys \in SystemPrompts : messages' = <<sys, UserMessage>>
    /\ chat_pc' = "calling"
Discarded == messages' = messages /\ chat_pc' = "input"

\* C18 as claimed: when the history with the prospective message is CRITICAL the
\* operator is prompted before anything is sent; on the answer y the message is
\* appended to the unchanged history, on the answer clear the history is reset to
\* the system prompt and the message appended, on any other answer the message
\* is discarded; when the status is not CRITICAL the message is appended
\* without a prompt.
C18_AsClaimed ==
    [][/\ (MessageRead /\ Critical(temp_messages')) =>
              (chat_pc' = "prompt" /\ messages' = messages)
       /\ (MessageRead /\ ~Critical(temp_messages')) => Appended
       /\ (chat_pc = "prompt" /\ answer' = "y") => Appended
       /\ (chat_pc = "prompt" /\ answer' = "clear") => ResetAndAppended
       /\ (chat_pc = "prompt" /\ answer' \notin {"y", "clear"}) => Discarded]_vars

Yes == {"y", "Y"}
Clear == {"clear", "Clear", "CLEAR", "cLEAR", "clEAR", "cleAR", "cleaR"}

\* C18 amended: the answer is compared without regard to case and without being
\* trimmed: y or Y appends the message to the unchanged history, clear in any
\* case resets the history to the system prompt and appends the message, any
\* other answer discards the message.
C18_Prompt ==
    [][/\ (MessageRead /\ Critical(temp_messages')) =>
              (chat_pc' = "prompt" /\ messages' = messages)
       /\ (MessageRead /\ ~Critical(temp_messages')) => Appended
       /\ (chat_pc = "prompt" /\ answer' \in Yes) => Appended
       /\ (chat_pc = "prompt" /\ answer' \in Clear) => ResetAndAppended
       /\ (chat_pc = "prompt" /\ answer' \notin Yes \cup Clear) => Discarded]_vars

\* the prompt was answered Y with a history of three entries and the message
\* went out
C18_Witness ==
    /\ chat_pc = "calling" /\ answer = "Y"
    /\ Len(messages) = 4
    /\ Critical(messages)

(***************************************************************************)
(* C19: the shape of the history                                           *)
(***************************************************************************)
WaitsForInput == chat_pc \in {"input", "prompt"}
Alternates(history) ==
    /\ Len(history) >= 1
    /\ history[1] \in SystemPrompts
    /\ Len(history) % 2 = 1
    /\ \A i \in 2..Len(history) :
          history[i].role = (IF i % 2 = 0 THEN "user" ELSE "assistant")
IsPrefix(s, t) == Len(s) <= Len(t) /\ SubSeq(t, 1, Len(s)) = s
ResetToSystemPrompt ==
    /\ messages'[1] \in SystemPrompts
    /\ Len(messages') = 1 \/ (Len(messages') = 2 /\ chat_pc = "prompt" /\ answer' \in Clear)
Rollback ==
    /\ InExchange /\ outcome' = "failed"
    /\ messages[Len(messages)].role = "user"
    /\ messages' = SubSeq(messages, 1, Len(messages) - 1)

IsTruncationHeader(res) == Header(res)[1] = "Requested to read lines "
\* the range "lines s-e" the header says is returned
ReportedStart(res) == IF IsTruncationHeader(res) THEN Header(res)[6] ELSE Header(res)[4]
ReportedEnd(res) == IF IsTruncationHeader(res) THEN Header(res)[8] ELSE Header(res)[6]

\* C21 as claimed: every successful ranged read on a file of total_lines lines
\* reports a range start..e with start <= e <= total_lines and returns exactly
\* the lines start..e of the file; a ranged read with total_lines < start <= end
\* does not succeed with an empty slice and an inverted range.
C21_AsClaimed ==
    (RangedRead /\ Succeeded(result)) =>
        /\ ReportedStart(result) = ArgStart
        /\ ReportedStart(result) <= ReportedEnd(result)
        /\ ReportedEnd(result) <= TargetTotal
        /\ Body(result) = SubSeq(TargetLines, ReportedStart(result), ReportedEnd(result))

(***************************************************************************)
(* C22: no tagged region in the final answer                               *)
(***************************************************************************)
\* C22 as claimed: for every response that holds a <thinking>...</thinking>
\* region, the final_answer returned holds no complete <thinking>...</thinking>
\* region.
C22_AsClaimed == (WasSplit /\ HasRegion(response)) => ~HasRegion(final_answer)

====
